---- MODULE Spec2Model ----
(***************************************************************************)
(* A model of src/index.js: the error classes (ErrorBase and its           *)
(* subclasses), the aggregator ErrorDataError, and the conversion          *)
(* toBoomError.                                                            *)
(*                                                                         *)
(* A JavaScript object is a record that holds its own properties; reading *)
(* a property that is not there gives the token undefined (Get).  The      *)
(* prototype of an object (the class whose methods it inherits) is the     *)
(* field proto.  A call's arguments are a record keyed by the parameter    *)
(* names, an omitted argument being an absent key.                         *)
(*                                                                         *)
(* A Boom error (the value of the @hapi/boom factories the code calls) is  *)
(* the record [message, output |-> [statusCode, payload]] where payload    *)
(* holds statusCode, error (the HTTP status name) and, once the code has   *)
(* set it, details.                                                        *)
(***************************************************************************)
EXTENDS Integers, Sequences, FiniteSets, TLC

VARIABLES err, ctor, boom, ret, thrown, diag, last, added

vars == <<err, ctor, boom, ret, thrown, diag, last, added>>

(***************************************************************************)
(* Bounds                                                                  *)
(***************************************************************************)
\* records one aggregator takes through add
MaxAdds == 2
\* lines the diagnostic channel holds before the model stops converting
MaxDiag == 2
\* longest field list given to ErrorFieldNotAllowed
MaxFields == 2

(***************************************************************************)
(* JavaScript values                                                       *)
(***************************************************************************)
\* the value of a missing property or an omitted argument
undefined == "<undefined>"
\* the boolean false where a string is expected (a message argument)
false == "<false>"

Get(o, k) == IF k \in DOMAIN o THEN o[k] ELSE undefined

\* a parameter with a default: the default stands in for undefined
Default(a, k, d) == IF Get(a, k) = undefined THEN d ELSE a[k]

Pick(a, keys) == [k \in (DOMAIN a) \cap keys |-> a[k]]

\* ToBoolean of a string-or-token value
Truthy(v) == v \notin {undefined, false, ""}

\* Array.prototype.join
RECURSIVE join(_, _)
join(arr, sep) ==
    IF Len(arr) = 0 THEN ""
    ELSE IF Len(arr) = 1 THEN arr[1]
    ELSE arr[1] \o sep \o join(Tail(arr), sep)

\* the object in hand when nothing was raised, and the result when nothing
\* was returned
None == [proto |-> "none"]

(***************************************************************************)
(* @hapi/boom, as far as the code uses it: each factory gives an error     *)
(* with the message it was handed and the status code of its name.         *)
(***************************************************************************)
\* the message property of new Error(m)
ErrorMessage(m) == IF m = undefined THEN "" ELSE m

Boom(m, statusCode, error) ==
    [message |-> ErrorMessage(m),
     output |-> [statusCode |-> statusCode,
                 payload |-> [statusCode |-> statusCode, error |-> error]]]

Boom_badData(m) == Boom(m, 422, "Unprocessable Entity")
Boom_notImplemented(m) == Boom(m, 501, "Not Implemented")
Boom_forbidden(m) == Boom(m, 403, "Forbidden")
Boom_notFound(m) == Boom(m, 404, "Not Found")
Boom_conflict(m) == Boom(m, 409, "Conflict")
Boom_badImplementation(m) == Boom(m, 500, "Internal Server Error")

\* b.output.payload.details = d
SetDetails(b, d) ==
    [b EXCEPT !.output.payload = [details |-> d] @@ @]

(***************************************************************************)
(* Constructors.  Each takes the record of its arguments and gives the     *)
(* instance, or Throw(e) when the constructor throws e.                    *)
(***************************************************************************)
Throw(e) == [proto |-> "none", throw |-> e]
IsThrow(r) == "throw" \in DOMAIN r

\* constructor(message, status = 500)
ErrorBase(a) ==
    [message |-> ErrorMessage(Get(a, "message")),
     boomStatus |-> IF "status" \in DOMAIN a THEN a.status ELSE 500]

\* constructor(message, status)
ErrorNotImplemented(a) ==
    [proto |-> "ErrorNotImplemented", type |-> "ErrorNotImplemented"]
        @@ ErrorBase(Pick(a, {"message", "status"}))

\* constructor(type, message)
ErrorTyped(a) ==
    [proto |-> "ErrorTyped", type |-> Get(a, "type")]
        @@ ErrorBase(Pick(a, {"message"}))

\* constructor(field = 'no name', message = 'not found', status)
ErrorNotFound(a) ==
    [proto |-> "ErrorNotFound", type |-> "ErrorNotFound",
     name |-> Default(a, "field", "no name")]
        @@ ErrorBase([message |-> Default(a, "message", "not found")])

\* constructor(fieldname = 'no name', message = 'duplicate', status)
ErrorDuplicate(a) ==
    [proto |-> "ErrorDuplicate", type |-> "ErrorDuplicate",
     fieldname |-> Default(a, "fieldname", "no name")]
        @@ ErrorBase([message |-> Default(a, "message", "duplicate")]
                         @@ Pick(a, {"status"}))

\* constructor(message = 'access denied', status)
ErrorAccessDenied(a) ==
    [proto |-> "ErrorAccessDenied", type |-> "ErrorAccessDenied"]
        @@ ErrorBase([message |-> Default(a, "message", "access denied")]
                         @@ Pick(a, {"status"}))

\* constructor(document = '', message = 'document not found', status)
ErrorDocumentNotFound(a) ==
    [proto |-> "ErrorDocumentNotFound", type |-> "ErrorDocumentNotFound",
     document |-> Default(a, "document", "")]
        @@ ErrorBase([message |-> Default(a, "message", "document not found")]
                         @@ Pick(a, {"status"}))

\* constructor(fieldName = '', message, status)
ErrorFieldNotFound(a) ==
    LET fieldName == Default(a, "fieldName", "")
        message == IF Get(a, "message") = undefined
                   THEN "field (" \o fieldName \o ") was not found"
                   ELSE a.message
    IN  [proto |-> "ErrorFieldNotFound", type |-> "ErrorFieldNotFound",
         fieldName |-> fieldName]
            @@ ErrorBase([message |-> message] @@ Pick(a, {"status"}))

\* constructor(fieldname = '', message = 'data not valid', status)
ErrorFieldNotValid(a) ==
    LET fieldname == Default(a, "fieldname", "")
        message == Default(a, "message", "data not valid")
    IN  [proto |-> "ErrorFieldNotValid", type |-> "ErrorFieldNotValid",
         fieldname |-> IF message = false THEN " -- no field --" ELSE fieldname]
            @@ ErrorBase([message |-> IF message = false THEN fieldname ELSE message]
                             @@ Pick(a, {"status"}))

\* constructor(filename = '', message = 'file error found', status)
ErrorFile(a) ==
    [proto |-> "ErrorFile", type |-> "ErrorFile",
     document |-> Default(a, "filename", "")]
        @@ ErrorBase([message |-> Default(a, "message", "file error found")]
                         @@ Pick(a, {"status"}))

\* constructor(fields, message = false, status); fields.length and
\* fields.join are read only when message is falsy, and reading them of an
\* omitted fields throws a TypeError
ErrorFieldNotAllowed(a) ==
    LET message == Default(a, "message", false)
    IN  IF ~Truthy(message) /\ "fields" \notin DOMAIN a
        THEN Throw("TypeError")
        ELSE [proto |-> "ErrorFieldNotAllowed", type |-> "ErrorFieldNotAllowed"]
                 @@ Pick(a, {"fields"})
                 @@ ErrorBase(
                        [message |->
                            IF Truthy(message) THEN message
                            ELSE "field"
                                     \o (IF Len(a.fields) > 1 THEN "s" ELSE "")
                                     \o " \"" \o join(a.fields, ", ")
                                     \o "\" not defined"]
                            @@ Pick(a, {"status"}))

\* constructor(message, status)
ErrorBadRequest(a) ==
    [proto |-> "ErrorBadRequest", type |-> "ErrorBadRequest"]
        @@ ErrorBase(Pick(a, {"message", "status"}))

\* constructor(message, status)
ErrorServerError(a) ==
    [proto |-> "ErrorServerError", type |-> "ErrorServerError"]
        @@ ErrorBase(Pick(a, {"message", "status"}))

\* constructor(message, status)
ErrorUnknown(a) ==
    [proto |-> "ErrorUnknown", type |-> "ErrorUnknown"]
        @@ ErrorBase(Pick(a, {"message", "status"}))

(***************************************************************************)
(* The aggregator                                                          *)
(***************************************************************************)
\* add with unshift in place of push: the new record goes first
add_Unshift(this, type, fieldname, message, data) ==
    [this EXCEPT !.errors =
        << [type |-> type, fieldname |-> fieldname,
            message |-> message, data |-> data] >> \o @]

\* add(type, fieldname, message, data): this.errors.push({...})
add(this, type, fieldname, message, data) ==
    [this EXCEPT !.errors =
        Append(@, [type |-> type, fieldname |-> fieldname,
                   message |-> message, data |-> data])]

\* get length()
length(this) == Len(this.errors)

\* what a call gave back: a value, or undefined
Returned(v) == [returned |-> "value", value |-> v]
ReturnedUndefined == [returned |-> "undefined"]

\* error(index): this.errors[index], undefined off the array's positions
error(this, index) ==
    IF index \in 0 .. (Len(this.errors) - 1)
    THEN Returned(this.errors[index + 1])
    ELSE ReturnedUndefined

\* constructor(message = 'data error', status).  The first argument is
\* either a string (key message) or a descriptor object (key descriptor).
ErrorDataError(a) ==
    IF "descriptor" \in DOMAIN a
    THEN LET this == [proto |-> "ErrorDataError", errors |-> <<>>]
                         @@ ErrorBase([message |-> "data error",
                                       status |-> IF "status" \in DOMAIN a
                                                  THEN a.status ELSE 401])
             d == a.descriptor
         IN  [name |-> "ErrorDataError"]
                 @@ add(this, Get(d, "type"), Get(d, "fieldname"),
                        Get(d, "message"), undefined)
    ELSE [proto |-> "ErrorDataError", errors |-> <<>>, name |-> "ErrorDataError"]
             @@ ErrorBase([message |-> Default(a, "message", "data error"),
                           status |-> 401])

(***************************************************************************)
(* asBoom, per class                                                       *)
(***************************************************************************)
\* asBoom that takes the status from this.boomStatus
ErrorBase_asBoom_ByBoomStatus(this) ==
    Boom(Get(this, "message"), this.boomStatus, "Unknown")

ErrorBase_asBoom(this) == Boom_badData(Get(this, "message"))

ErrorNotImplemented_asBoom(this) == Boom_notImplemented(Get(this, "message"))

ErrorTyped_asBoom(this) == Boom_forbidden(Get(this, "message"))

ErrorNotFound_asBoom(this) ==
    SetDetails(Boom_notFound(Get(this, "message")),
               [fieldname |-> Get(this, "fieldname")])

ErrorDuplicate_asBoom(this) ==
    SetDetails(Boom_conflict("duplicate"),
               [fieldname |-> Get(this, "fieldname"),
                message |-> Get(this, "message")])

ErrorAccessDenied_asBoom(this) == Boom_forbidden(Get(this, "message"))

ErrorDocumentNotFound_asBoom(this) ==
    SetDetails(Boom_notFound(Get(this, "message")),
               [document |-> Get(this, "document")])

ErrorFieldNotFound_asBoom(this) ==
    SetDetails(Boom_notFound(Get(this, "message")),
               [fieldName |-> Get(this, "fieldName")])

ErrorFieldNotValid_asBoom(this) ==
    SetDetails(Boom_conflict("not valid"),
               [fieldname |-> Get(this, "fieldname"),
                message |-> Get(this, "message")])

ErrorFile_asBoom(this) ==
    SetDetails(Boom_notFound("file not found"),
               [document |-> Get(this, "document"),
                message |-> Get(this, "message")])

\* the classes of the module; each inherits or overrides ErrorBase's asBoom
Classes ==
    {"ErrorNotImplemented", "ErrorTyped", "ErrorNotFound", "ErrorDuplicate",
     "ErrorAccessDenied", "ErrorDocumentNotFound", "ErrorFieldNotFound",
     "ErrorFieldNotValid", "ErrorFile", "ErrorFieldNotAllowed",
     "ErrorBadRequest", "ErrorServerError", "ErrorUnknown", "ErrorDataError"}

\* this.asBoom(), by the prototype chain
asBoom(this) ==
    CASE this.proto = "ErrorNotImplemented" -> ErrorNotImplemented_asBoom(this)
      [] this.proto = "ErrorTyped" -> ErrorTyped_asBoom(this)
      [] this.proto = "ErrorNotFound" -> ErrorNotFound_asBoom(this)
      [] this.proto = "ErrorDuplicate" -> ErrorDuplicate_asBoom(this)
      [] this.proto = "ErrorAccessDenied" -> ErrorAccessDenied_asBoom(this)
      [] this.proto = "ErrorDocumentNotFound" -> ErrorDocumentNotFound_asBoom(this)
      [] this.proto = "ErrorFieldNotFound" -> ErrorFieldNotFound_asBoom(this)
      [] this.proto = "ErrorFieldNotValid" -> ErrorFieldNotValid_asBoom(this)
      [] this.proto = "ErrorFile" -> ErrorFile_asBoom(this)
      [] OTHER -> ErrorBase_asBoom(this)

\* new cls(...a)
New(cls, a) ==
    CASE cls = "ErrorNotImplemented" -> ErrorNotImplemented(a)
      [] cls = "ErrorTyped" -> ErrorTyped(a)
      [] cls = "ErrorNotFound" -> ErrorNotFound(a)
      [] cls = "ErrorDuplicate" -> ErrorDuplicate(a)
      [] cls = "ErrorAccessDenied" -> ErrorAccessDenied(a)
      [] cls = "ErrorDocumentNotFound" -> ErrorDocumentNotFound(a)
      [] cls = "ErrorFieldNotFound" -> ErrorFieldNotFound(a)
      [] cls = "ErrorFieldNotValid" -> ErrorFieldNotValid(a)
      [] cls = "ErrorFile" -> ErrorFile(a)
      [] cls = "ErrorFieldNotAllowed" -> ErrorFieldNotAllowed(a)
      [] cls = "ErrorBadRequest" -> ErrorBadRequest(a)
      [] cls = "ErrorServerError" -> ErrorServerError(a)
      [] cls = "ErrorUnknown" -> ErrorUnknown(a)
      [] cls = "ErrorDataError" -> ErrorDataError(a)

(***************************************************************************)
(* toBoomError(err): what it returns (a Boom error, or Throw(e)) and the   *)
(* lines it writes with console.error.                                     *)
(*                                                                         *)
(* An object not of the module either has no asBoom property, or has one   *)
(* of its own: [callable |-> FALSE] (a truthy value that is no function)   *)
(* or [callable |-> TRUE, returns |-> v] (a function that returns v).      *)
(***************************************************************************)
\* toBoomError whose CastError case falls through to the default
toBoomError_CastFallsThrough(e) ==
    IF e.proto \in Classes
    THEN [return |-> asBoom(e), console |-> <<>>]
    ELSE IF "asBoom" \in DOMAIN e
    THEN [return |-> IF e.asBoom.callable THEN e.asBoom.returns
                     ELSE Throw("TypeError"),
          console |-> <<>>]
    ELSE [return |-> Boom_badImplementation(Get(e, "message")),
          console |-> << <<"[Error undefined]:", Get(e, "message")>> >>]

\* toBoomError that writes nothing to console.error
toBoomError_Silent(e) ==
    IF e.proto \in Classes
    THEN [return |-> asBoom(e), console |-> <<>>]
    ELSE IF "asBoom" \in DOMAIN e
    THEN [return |-> IF e.asBoom.callable THEN e.asBoom.returns
                     ELSE Throw("TypeError"),
          console |-> <<>>]
    ELSE IF Get(e, "name") = "CastError"
    THEN [return |-> SetDetails(Boom_conflict("not valid"),
                                [fieldname |-> Get(e, "path"),
                                 message |-> Get(e, "message")]),
          console |-> <<>>]
    ELSE [return |-> Boom_badImplementation(Get(e, "message")),
          console |-> <<>>]

toBoomError(e) ==
    IF e.proto \in Classes
    THEN [return |-> asBoom(e), console |-> <<>>]
    ELSE IF "asBoom" \in DOMAIN e
    THEN [return |-> IF e.asBoom.callable THEN e.asBoom.returns
                     ELSE Throw("TypeError"),
          console |-> <<>>]
    ELSE IF Get(e, "name") = "CastError"
    THEN [return |-> SetDetails(Boom_conflict("not valid"),
                                [fieldname |-> Get(e, "path"),
                                 message |-> Get(e, "message")]),
          console |-> <<>>]
    ELSE [return |-> Boom_badImplementation(Get(e, "message")),
          console |-> << <<"[Error undefined]:", Get(e, "message")>> >>]

(***************************************************************************)
(* Inputs                                                                  *)
(***************************************************************************)
FieldNames == {"age"}
Messages == {"bad type"}
Statuses == {400}
Types == {"required"}
Datas == {"x"}

\* an argument or a property: left out, or one of vs
Opt(k, vs) == {[x \in {} |-> x]} \cup {[x \in {k} |-> v] : v \in vs}

RECURSIVE SeqsUpTo(_, _)
SeqsUpTo(S, n) ==
    IF n = 0 THEN {<<>>}
    ELSE LET shorter == SeqsUpTo(S, n - 1)
         IN  shorter \cup {Append(q, x) : q \in shorter, x \in S}

\* the field lists given to ErrorFieldNotAllowed
FieldLists == SeqsUpTo({"a", "b"}, MaxFields)

\* the descriptor objects given to ErrorDataError
Descriptors ==
    {t @@ f @@ m :
        t \in Opt("type", Types), f \in Opt("fieldname", FieldNames),
        m \in Opt("message", Messages)}

MessageStatus ==
    {m @@ st : m \in Opt("message", Messages), st \in Opt("status", Statuses)}

\* the argument lists a class is constructed with
ArgsOf(cls) ==
    CASE cls \in {"ErrorNotImplemented", "ErrorBadRequest", "ErrorServerError",
                  "ErrorUnknown", "ErrorAccessDenied"} -> MessageStatus
      [] cls = "ErrorTyped" ->
            {t @@ m : t \in Opt("type", Types), m \in Opt("message", Messages)}
      [] cls = "ErrorNotFound" ->
            {f @@ ms : f \in Opt("field", FieldNames), ms \in MessageStatus}
      [] cls = "ErrorDuplicate" ->
            {f @@ ms : f \in Opt("fieldname", FieldNames), ms \in MessageStatus}
      [] cls = "ErrorDocumentNotFound" ->
            {d @@ ms : d \in Opt("document", {"doc"}), ms \in MessageStatus}
      [] cls = "ErrorFieldNotFound" ->
            {f @@ ms : f \in Opt("fieldName", FieldNames), ms \in MessageStatus}
      [] cls = "ErrorFieldNotValid" ->
            {f @@ m @@ st :
                f \in Opt("fieldname", FieldNames),
                m \in Opt("message", Messages \cup {false}),
                st \in Opt("status", Statuses)}
      [] cls = "ErrorFile" ->
            {f @@ ms : f \in Opt("filename", {"a.txt"}), ms \in MessageStatus}
      [] cls = "ErrorFieldNotAllowed" ->
            {f @@ m @@ st :
                f \in Opt("fields", FieldLists),
                m \in Opt("message", Messages \cup {false}),
                st \in Opt("status", Statuses)}
      [] cls = "ErrorDataError" ->
            {m @@ st :
                m \in Opt("message", Messages) \cup
                      {[descriptor |-> d] : d \in Descriptors},
                st \in Opt("status", Statuses)}

\* the asBoom property an object not of the module may carry
ForeignAsBoom ==
    {[callable |-> FALSE],
     [callable |-> TRUE, returns |-> Boom_badData("custom")]}

\* the objects raised by code outside the module
ForeignErrors ==
    {[proto |-> "Object"] @@ n @@ p @@ m @@ f :
        n \in Opt("name", {"CastError", "ValidationError"}),
        p \in Opt("path", FieldNames),
        m \in Opt("message", Messages),
        f \in Opt("asBoom", ForeignAsBoom)}

(***************************************************************************)
(* State: err is the instance in hand (None before one is raised), ctor    *)
(* how it came about, boom what the last conversion returned, ret what the *)
(* last error(index) returned, thrown the exception of the last operation  *)
(* ("none" when it returned), diag the lines written to console.error,     *)
(* added the add calls made on err, and last the last operation with the   *)
(* state it started from.                                                  *)
(***************************************************************************)
NoArgs == [x \in {} |-> x]

Op(name, index) ==
    [op |-> name, index |-> index, prevOp |-> last.op, errBefore |-> err,
     boomBefore |-> boom, diagBefore |-> diag]

Init ==
    /\ err = None
    /\ ctor = [class |-> "none", args |-> NoArgs]
    /\ boom = None
    /\ ret = None
    /\ thrown = "none"
    /\ diag = <<>>
    /\ added = <<>>
    /\ last = [op |-> "none", index |-> 0, prevOp |-> "none", errBefore |-> None,
               boomBefore |-> None, diagBefore |-> <<>>]

\* err = new cls(...a), at the failure site
Construct ==
    /\ err = None
    /\ thrown = "none"
    /\ \E cls \in Classes : \E a \in ArgsOf(cls) :
          LET r == New(cls, a)
          IN  /\ err' = IF IsThrow(r) THEN None ELSE r
              /\ thrown' = IF IsThrow(r) THEN r.throw ELSE "none"
              /\ ctor' = [class |-> cls, args |-> a]
    /\ last' = Op("new", 0)
    /\ UNCHANGED <<boom, ret, diag, added>>

\* code outside the module raises an object of its own
RaiseForeign ==
    /\ err = None
    /\ thrown = "none"
    /\ \E e \in ForeignErrors : err' = e
    /\ ctor' = [class |-> "Object", args |-> NoArgs]
    /\ last' = Op("raise", 0)
    /\ UNCHANGED <<boom, ret, thrown, diag, added>>

\* err.add(type, fieldname, message, data)
Add ==
    /\ err.proto = "ErrorDataError"
    /\ Len(added) < MaxAdds
    /\ \E type \in Types \cup {undefined}, fieldname \in FieldNames \cup {undefined},
          message \in Messages, data \in Datas \cup {undefined} :
          /\ err' = add(err, type, fieldname, message, data)
          /\ added' = Append(added, <<type, fieldname, message, data>>)
    /\ thrown' = "none"
    /\ last' = Op("add", 0)
    /\ UNCHANGED <<ctor, boom, ret, diag>>

\* err.error(index)
ErrorAt ==
    /\ err.proto = "ErrorDataError"
    /\ \E index \in -1 .. (MaxAdds + 1) :
          /\ ret' = error(err, index)
          /\ last' = Op("error", index)
    /\ thrown' = "none"
    /\ UNCHANGED <<err, ctor, boom, diag, added>>

\* a conversion that leaves the message of the Boom error on the instance
Convert_KeepsBoomMessage ==
    /\ err # None
    /\ Len(diag) < MaxDiag
    /\ LET out == toBoomError(err)
       IN  /\ boom' = IF IsThrow(out.return) THEN None ELSE out.return
           /\ thrown' = IF IsThrow(out.return) THEN out.return.throw ELSE "none"
           /\ diag' = diag \o out.console
           /\ err' = IF IsThrow(out.return) THEN err
                     ELSE [err EXCEPT !.message = out.return.message]
    /\ last' = Op("toBoomError", 0)
    /\ UNCHANGED <<ctor, ret, added>>

\* toBoomError(err), at the boundary
Convert ==
    /\ err # None
    /\ Len(diag) < MaxDiag
    /\ LET out == toBoomError(err)
       IN  /\ boom' = IF IsThrow(out.return) THEN None ELSE out.return
           /\ thrown' = IF IsThrow(out.return) THEN out.return.throw ELSE "none"
           /\ diag' = diag \o out.console
    /\ last' = Op("toBoomError", 0)
    /\ UNCHANGED <<err, ctor, ret, added>>

\* the instance is dropped; the next failure starts afresh
Discard ==
    /\ last.op # "none"
    /\ err' = None
    /\ ctor' = [class |-> "none", args |-> NoArgs]
    /\ boom' = None
    /\ ret' = None
    /\ thrown' = "none"
    /\ diag' = <<>>
    /\ added' = <<>>
    /\ last' = [op |-> "none", index |-> 0, prevOp |-> "none", errBefore |-> None,
                boomBefore |-> None, diagBefore |-> <<>>]

Next ==
    \/ Construct
    \/ RaiseForeign
    \/ Add
    \/ ErrorAt
    \/ Convert
    \/ Discard

Spec == Init /\ [][Next]_vars

(***************************************************************************)
(* The aggregator's records                                                *)
(***************************************************************************)
IsAggregator == err.proto = "ErrorDataError"

\* 1 when the aggregator was constructed from a descriptor object, else 0
Seeded == IF "descriptor" \in DOMAIN ctor.args THEN 1 ELSE 0

\* the records handed to the aggregator, in the order they were handed over:
\* the descriptor's (when seeded), then one per add call
Appended ==
    (IF Seeded = 1
     THEN << [type |-> Get(ctor.args.descriptor, "type"),
              fieldname |-> Get(ctor.args.descriptor, "fieldname"),
              message |-> Get(ctor.args.descriptor, "message"),
              data |-> undefined] >>
     ELSE <<>>)
    \o [i \in 1 .. Len(added) |->
            [type |-> added[i][1], fieldname |-> added[i][2],
             message |-> added[i][3], data |-> added[i][4]]]

ValidIndex(i) == i \in 0 .. (length(err) - 1)

\* C1: an aggregator that started with s records and took n add calls has
\* length s + n, add never fails, and error(i) at every valid position i
\* returns the record handed over i-th, whatever was added after it.
C1_AggregatorKeepsRecords ==
    IsAggregator =>
        /\ length(err) = Seeded + Len(added)
        /\ \A i \in 0 .. (length(err) - 1) : error(err, i) = Returned(Appended[i + 1])
        /\ (last.op = "add" => thrown = "none")
        /\ (last.op = "error" /\ ValidIndex(last.index)
                => ret = Returned(Appended[last.index + 1]))

\* a seeded aggregator took every add the bound allows, and error(1) was read
C1_Witness ==
    /\ IsAggregator
    /\ Seeded = 1
    /\ Len(added) = MaxAdds
    /\ last.op = "error"
    /\ last.index = 1
    /\ ret.returned = "value"

\* C2: error(index) at an index that is no valid position fails with an
\* out-of-range condition instead of returning, and leaves the records as
\* they were.
C2_ErrorOutOfRangeFails ==
    (IsAggregator /\ last.op = "error" /\ ~ValidIndex(last.index)) =>
        /\ thrown # "none"
        /\ err = last.errBefore

(***************************************************************************)
(* Conversion                                                              *)
(***************************************************************************)
Converted == last.op = "toBoomError"

\* err has the conversion capability: if (err.asBoom)
HasAsBoom == err.proto \in Classes \/ "asBoom" \in DOMAIN err

\* C3: toBoomError never fails and never returns nothing, whatever was
\* raised; when err has asBoom, it returns what err.asBoom returns.
C3_ConversionNeverFails ==
    Converted =>
        /\ thrown = "none"
        /\ boom # None
        /\ (err.proto \in Classes => boom = asBoom(err))
        /\ ("asBoom" \in DOMAIN err => boom = err.asBoom.returns)

\* the variants of the documented table
TableVariants == Classes \ {"ErrorDataError"}

\* the structured argument each variant requires
RequiredArgs(cls) ==
    CASE cls = "ErrorTyped" -> {"type"}
      [] cls = "ErrorNotFound" -> {"field"}
      [] cls = "ErrorDuplicate" -> {"fieldname"}
      [] cls = "ErrorDocumentNotFound" -> {"document"}
      [] cls = "ErrorFieldNotFound" -> {"fieldName"}
      [] cls = "ErrorFieldNotValid" -> {"fieldname"}
      [] cls = "ErrorFile" -> {"filename"}
      [] cls = "ErrorFieldNotAllowed" -> {"fields"}
      [] OTHER -> {}

\* a variant constructed with its required arguments and no others, converted
ConvertedDefault ==
    /\ Converted
    /\ ctor.class \in TableVariants
    /\ DOMAIN ctor.args = RequiredArgs(ctor.class)

\* the variant's own kind
Kind == IF ctor.class = "ErrorTyped" THEN ctor.args.type ELSE ctor.class

\* the default status the table documents
DocumentedStatus(cls) ==
    CASE cls \in {"ErrorNotFound", "ErrorDocumentNotFound", "ErrorFieldNotFound",
                  "ErrorFile"} -> 404
      [] cls = "ErrorAccessDenied" -> 403
      [] cls = "ErrorFieldNotValid" -> 409
      [] OTHER -> 500

\* the status the conversion gives
ConvertedStatus(cls) ==
    CASE cls \in {"ErrorNotFound", "ErrorDocumentNotFound", "ErrorFieldNotFound",
                  "ErrorFile"} -> 404
      [] cls \in {"ErrorAccessDenied", "ErrorTyped"} -> 403
      [] cls \in {"ErrorFieldNotValid", "ErrorDuplicate"} -> 409
      [] cls = "ErrorNotImplemented" -> 501
      [] OTHER -> 422

C5_AggregatorRepresentation ==
    (Converted /\ IsAggregator) =>
        /\ ("status" \notin DOMAIN ctor.args => boom.output.statusCode = 401)
        /\ boom.output.payload.error = "DataError"
        /\ "details" \in DOMAIN boom.output.payload
        /\ boom.output.payload.details = err.errors

\* an object of code outside the module, without the conversion capability
ConvertedForeign ==
    /\ Converted
    /\ err.proto = "Object"
    /\ ~HasAsBoom

\* C6 as stated: a foreign object named "CastError" converts to a 409
\* representation with details exactly {fieldName: err.path, message:
\* err.message}, and nothing is written to the diagnostic channel.
C6_CastErrorDetailsFieldName ==
    (ConvertedForeign /\ Get(err, "name") = "CastError") =>
        /\ boom.output.statusCode = 409
        /\ "details" \in DOMAIN boom.output.payload
        /\ boom.output.payload.details =
               [fieldName |-> Get(err, "path"), message |-> Get(err, "message")]
        /\ diag = last.diagBefore

\* C6 as amended: the details are exactly {fieldname: err.path, message:
\* err.message}, the key spelled fieldname.
C6_CastErrorDetails ==
    (ConvertedForeign /\ Get(err, "name") = "CastError") =>
        /\ thrown = "none"
        /\ boom.output.statusCode = 409
        /\ "details" \in DOMAIN boom.output.payload
        /\ boom.output.payload.details =
               [fieldname |-> Get(err, "path"), message |-> Get(err, "message")]
        /\ diag = last.diagBefore

\* a CastError with a path and a message was converted
C6_Witness ==
    /\ ConvertedForeign
    /\ Get(err, "name") = "CastError"
    /\ Get(err, "path") = "age"
    /\ Get(err, "message") = "bad type"
    /\ boom # None

C8_ConstructNeverThrows ==
    last.op = "new" =>
        /\ thrown = "none"
        /\ err # None
        /\ ((ctor.class = "ErrorFieldNotAllowed"
                /\ Get(ctor.args, "message") \in {undefined, false})
                => err.message =
                       "fields \"" \o join(ctor.args.fields, ", ") \o "\" not defined")

\* the variants that define a detail payload, with the argument that gives
\* the field of the payload and the sentinel that stands in for it
DetailVariants ==
    {"ErrorNotFound", "ErrorDuplicate", "ErrorDocumentNotFound",
     "ErrorFieldNotFound", "ErrorFieldNotValid", "ErrorFile"}

FieldGiven ==
    CASE ctor.class = "ErrorNotFound" -> Default(ctor.args, "field", "no name")
      [] ctor.class = "ErrorDuplicate" -> Default(ctor.args, "fieldname", "no name")
      [] ctor.class = "ErrorDocumentNotFound" -> Default(ctor.args, "document", "")
      [] ctor.class = "ErrorFieldNotFound" -> Default(ctor.args, "fieldName", "")
      [] ctor.class = "ErrorFieldNotValid" -> Default(ctor.args, "fieldname", "")
      [] ctor.class = "ErrorFile" -> Default(ctor.args, "filename", "")

\* the value under the field key of a details object, the key read in
\* either spelling
FieldOf(details) ==
    IF "fieldName" \in DOMAIN details THEN details.fieldName
    ELSE IF "fieldname" \in DOMAIN details THEN details.fieldname
    ELSE Get(details, "document")

\* C9: a variant with a detail payload converts to details whose field key
\* holds the value given at construction, or the documented sentinel when
\* it was omitted; NotFound without arguments converts to the field
\* "no name" and the message "not found".
C9_DetailsCarryField ==
    (/\ Converted
     /\ ctor.class \in DetailVariants
     /\ Get(ctor.args, "message") # false) =>
        /\ "details" \in DOMAIN boom.output.payload
        /\ FieldOf(boom.output.payload.details) = FieldGiven
        /\ (ctor.class = "ErrorNotFound" /\ DOMAIN ctor.args = {}
                => boom.message = "not found")

====
